---- MODULE Spec2Model ----
(***************************************************************************)
(* Climate time-series acquisition and aggregation pipeline of             *)
(* scripts/download_climate_data.py: download_nasa_power_data (chunked     *)
(* fetch with retries, daily-to-monthly aggregation) and                   *)
(* collect_all_nasa_climate_data (the loop over the location registry, the *)
(* three accumulators and the final save).                                 *)
(*                                                                         *)
(* Units.  The API's daily values are whole numbers here.  A value that    *)
(* the code rounds to 2 decimals is held in hundredths (Avg_Temp_C 32.0 is *)
(* 3200), one rounded to 1 decimal in tenths (Rainfall_mm 17.0 is 170).    *)
(* A Date "YYYY-MM-01" is the pair <<year, month>>.                        *)
(*                                                                         *)
(* Two specifications share the actions of download_nasa_power_data:       *)
(*   Spec       the whole run of collect_all_nasa_climate_data;            *)
(*   SpecFetch  one call of download_nasa_power_data, its arguments and    *)
(*              the API's responses drawn from larger sets.                *)
(***************************************************************************)
EXTENDS Integers, Sequences, FiniteSets

\* ------------------------------------------------------------------ bounds

\* Config.END_YEAR is 2023 (17 sub-ranges per location); the run is modelled
\* over the first NumYears years of the period.
NumYears == 3

\* The registry holds 18 locations; the run is modelled over its first
\* NumLocations, in registry order (three of North-West, then North-East).
NumLocations == 4

\* The most day records the API returns to one call of
\* download_nasa_power_data, over all its responses (SpecFetch).
MaxDays == 3

\* ------------------------------------------------------- program constants

START_YEAR == 1990

EndYear == START_YEAR + NumYears - 1

chunk_size == 2

MaxAttempts == 3

BackoffUnit == 10

ChunkPause == 1

\* A Python value that is None or a data frame (its rows).
None == [none |-> TRUE, rows |-> <<>>]

Frame(rows) == [none |-> FALSE, rows |-> rows]

\* Config.ZONES flattened in iteration order of the two nested loops:
\* zone order, then state order within the zone.
ZONES ==
    << [zone |-> "North-West",    state |-> "Kaduna"],
       [zone |-> "North-West",    state |-> "Kano"],
       [zone |-> "North-West",    state |-> "Sokoto"],
       [zone |-> "North-East",    state |-> "Borno"],
       [zone |-> "North-East",    state |-> "Bauchi"],
       [zone |-> "North-East",    state |-> "Adamawa"],
       [zone |-> "North-Central", state |-> "Benue"],
       [zone |-> "North-Central", state |-> "Plateau"],
       [zone |-> "North-Central", state |-> "Niger"] >>

Registry == SubSeq(ZONES, 1, NumLocations)

total_states == Len(Registry)

\* The four variables looked up per day after T2M, in the order of the
\* lookups.
OtherParams == <<"T2M_MAX", "T2M_MIN", "PRECTOTCORR", "RH2M">>

\* ------------------------------------------------------------- arithmetic

Min2(a, b) == IF a <= b THEN a ELSE b

RECURSIVE SumSeq(_)
SumSeq(s) == IF s = <<>> THEN 0 ELSE Head(s) + SumSeq(Tail(s))

RECURSIVE MaxSeq(_)
MaxSeq(s) ==
    IF Len(s) = 1 THEN s[1]
    ELSE LET r == MaxSeq(Tail(s)) IN IF s[1] >= r THEN s[1] ELSE r

RECURSIVE MinSeq(_)
MinSeq(s) ==
    IF Len(s) = 1 THEN s[1]
    ELSE LET r == MinSeq(Tail(s)) IN IF s[1] <= r THEN s[1] ELSE r

\* round(num / den) to an integer, ties to the even neighbour (den > 0):
\* numpy's rounding of a float64.
RoundDiv(num, den) ==
    LET q == num \div den
        r == num % den
    IN  IF 2 * r < den THEN q
        ELSE IF 2 * r > den THEN q + 1
        ELSE IF q % 2 = 0 THEN q ELSE q + 1

\* round(np.mean(values), decimals) in units of 10^-decimals; scale = 10^decimals.
MeanRounded(values, scale) == RoundDiv(scale * SumSeq(values), Len(values))

\* ------------------------------------------------ the API's daily records

\* The daily values of day-of-month d, per variable.  Each day is physically
\* consistent (T2M_MIN <= T2M <= T2M_MAX, PRECTOTCORR >= 0, RH2M in 0..100)
\* and the boundaries occur: a day whose maximum equals its mean, a dry day,
\* a day of 100 percent humidity.
DayTable ==
    [T2M         |-> <<30, 32, 34, 29>>,
     T2M_MAX     |-> <<36, 32, 38, 35>>,
     T2M_MIN     |-> <<25, 27, 22, 24>>,
     PRECTOTCORR |-> <<0, 12, 5, 3>>,
     RH2M        |-> <<40, 81, 100, 63>>]

DayValue(param, d) == DayTable[param][((d - 1) % 4) + 1]

\* One entry of the response's T2M map: the date its key parses to (valid is
\* FALSE for a key that is no date), and which of the other four maps hold
\* the same key.
Day(y, m, d, valid, has) ==
    [year |-> y, month |-> m, day |-> d, valid |-> valid, has |-> has]

AllParams == {OtherParams[i] : i \in 1..4}

\* A complete record, a record missing one variable, a malformed key.
DayShapes ==
    {[valid |-> TRUE, has |-> AllParams]}
    \cup {[valid |-> TRUE, has |-> AllParams \ {p}] : p \in AllParams}
    \cup {[valid |-> FALSE, has |-> AllParams]}

\* -------------------------------------------------------------- variables

VARIABLES
    pc,                     \* the statement the single thread is at
    current_state,          \* collect_all: locations started so far
    all_temperature_data,   \* collect_all: the three accumulators,
    all_rainfall_data,      \*   one data frame (a sequence of rows)
    all_humidity_data,      \*   per succeeded location
    failed_states,          \* collect_all: names of the failed locations
    files,                  \* the three files under CLIMATE_DIR
    result,                 \* what collect_all returned
    start_year, end_year,   \* download: arguments
    year_start,             \* download: the sub-range loop's variable
    attempt,                \* download: the retry loop's variable
    all_data,               \* download: month buckets
    all_chunks_successful,  \* download: flag
    df,                     \* download: return value
    last_sleep,             \* seconds of the time.sleep since the last request, 0 if none
    chunk_log,              \* the latest call's finished sub-ranges: bounds, outcome, months
    days_received           \* day records received by this call so far

vars == <<pc, current_state, all_temperature_data, all_rainfall_data,
          all_humidity_data, failed_states, files, result, start_year,
          end_year, year_start, attempt, all_data, all_chunks_successful,
          df, last_sleep, chunk_log, days_received>>

orch_vars == <<current_state, all_temperature_data, all_rainfall_data,
               all_humidity_data, failed_states, files, result>>


\* ------------------------------------- download_nasa_power_data: operators

EmptyAllData ==
    [dates |-> <<>>, temps_avg |-> <<>>, temps_max |-> <<>>,
     temps_min |-> <<>>, rainfall |-> <<>>, humidity |-> <<>>]

\* list.index: the first position of x in s.
IndexOf(s, x) ==
    CHOOSE i \in 1..Len(s) : s[i] = x /\ \A j \in 1..(i - 1) : s[j] # x

\* WithBucket without the membership test: every day opens a bucket.
WithBucketAlways(ad, key) ==
    [dates     |-> Append(ad.dates, key),
     temps_avg |-> Append(ad.temps_avg, <<>>),
     temps_max |-> Append(ad.temps_max, <<>>),
     temps_min |-> Append(ad.temps_min, <<>>),
     rainfall  |-> Append(ad.rainfall, <<>>),
     humidity  |-> Append(ad.humidity, <<>>)]

\* A month key not seen before gets a bucket: its key and five empty lists.
WithBucket(ad, key) ==
    IF \E i \in 1..Len(ad.dates) : ad.dates[i] = key THEN ad
    ELSE [dates     |-> Append(ad.dates, key),
          temps_avg |-> Append(ad.temps_avg, <<>>),
          temps_max |-> Append(ad.temps_max, <<>>),
          temps_min |-> Append(ad.temps_min, <<>>),
          rainfall  |-> Append(ad.rainfall, <<>>),
          humidity  |-> Append(ad.humidity, <<>>)]

AppendAt(lists, idx, v) == [lists EXCEPT ![idx] = Append(@, v)]

\* How many of the four lookups succeed before the first KeyError.
RECURSIVE LookupsBeforeError(_, _)
LookupsBeforeError(has, i) ==
    IF i > Len(OtherParams) \/ OtherParams[i] \notin has THEN 0
    ELSE 1 + LookupsBeforeError(has, i + 1)

\* The body of the loop over properties['T2M'].items().  A key that is no
\* date raises ValueError before anything is touched.  Otherwise the bucket
\* is created, temp_avg is appended, and the four lookups and appends follow
\* in order; the first missing key raises KeyError, which ends the iteration
\* and leaves the appends already made.
ProcessDay(ad, day) ==
    IF ~day.valid THEN ad
    ELSE
        LET key == <<day.year, day.month>>
            b   == WithBucket(ad, key)
            idx == IndexOf(b.dates, key)
            n   == LookupsBeforeError(day.has, 1)
            Put(lists, k, param) ==
                IF n >= k THEN AppendAt(lists, idx, DayValue(param, day.day))
                ELSE lists
        IN  [dates     |-> b.dates,
             temps_avg |-> AppendAt(b.temps_avg, idx, DayValue("T2M", day.day)),
             temps_max |-> Put(b.temps_max, 1, "T2M_MAX"),
             temps_min |-> Put(b.temps_min, 2, "T2M_MIN"),
             rainfall  |-> Put(b.rainfall, 3, "PRECTOTCORR"),
             humidity  |-> Put(b.humidity, 4, "RH2M")]

\* The loop over the days of one response, in the response's order.
RECURSIVE ProcessDays(_, _)
ProcessDays(ad, days) ==
    IF days = <<>> THEN ad
    ELSE ProcessDays(ProcessDay(ad, Head(days)), Tail(days))

\* MonthIsComplete with the comparison off by one: each list must hold
\* more than one value.
MonthIsCompleteOffByOne(ad, i) ==
    /\ Len(ad.temps_avg[i]) > 1
    /\ Len(ad.temps_max[i]) > 1
    /\ Len(ad.temps_min[i]) > 1
    /\ Len(ad.rainfall[i]) > 1
    /\ Len(ad.humidity[i]) > 1

\* The test that admits month i to monthly_data: five non-empty lists.
MonthIsComplete(ad, i) ==
    /\ ad.temps_avg[i] # <<>>
    /\ ad.temps_max[i] # <<>>
    /\ ad.temps_min[i] # <<>>
    /\ ad.rainfall[i] # <<>>
    /\ ad.humidity[i] # <<>>

\* MonthlyRecord with the month's humidity summed like the rainfall
\* instead of averaged.
MonthlyRecordSumHumidity(ad, i) ==
    [Date             |-> ad.dates[i],
     Avg_Temp_C       |-> MeanRounded(ad.temps_avg[i], 100),
     Max_Temp_C       |-> 100 * MaxSeq(ad.temps_max[i]),
     Min_Temp_C       |-> 100 * MinSeq(ad.temps_min[i]),
     Rainfall_mm      |-> 10 * SumSeq(ad.rainfall[i]),
     Humidity_Percent |-> 10 * SumSeq(ad.humidity[i])]

\* MonthlyRecord with the month's rainfall averaged like the other
\* variables instead of summed.
MonthlyRecordMeanRainfall(ad, i) ==
    [Date             |-> ad.dates[i],
     Avg_Temp_C       |-> MeanRounded(ad.temps_avg[i], 100),
     Max_Temp_C       |-> 100 * MaxSeq(ad.temps_max[i]),
     Min_Temp_C       |-> 100 * MinSeq(ad.temps_min[i]),
     Rainfall_mm      |-> MeanRounded(ad.rainfall[i], 10),
     Humidity_Percent |-> MeanRounded(ad.humidity[i], 10)]

MonthlyRecord(ad, i) ==
    [Date             |-> ad.dates[i],
     Avg_Temp_C       |-> MeanRounded(ad.temps_avg[i], 100),
     Max_Temp_C       |-> 100 * MaxSeq(ad.temps_max[i]),
     Min_Temp_C       |-> 100 * MinSeq(ad.temps_min[i]),
     Rainfall_mm      |-> 10 * SumSeq(ad.rainfall[i]),
     Humidity_Percent |-> MeanRounded(ad.humidity[i], 10)]

\* monthly_data: the records of the complete months, in bucket order.
RECURSIVE MonthlyFrom(_, _)
MonthlyFrom(ad, i) ==
    IF i > Len(ad.dates) THEN <<>>
    ELSE (IF MonthIsComplete(ad, i) THEN <<MonthlyRecord(ad, i)>> ELSE <<>>)
         \o MonthlyFrom(ad, i + 1)

monthly_data(ad) == MonthlyFrom(ad, 1)

DateBefore(a, b) == a[1] < b[1] \/ (a[1] = b[1] /\ a[2] < b[2])

\* Insert row r into the rows sorted by Date, after the rows not later than it.
RECURSIVE InsertByDate(_, _)
InsertByDate(sorted, r) ==
    IF sorted = <<>> THEN <<r>>
    ELSE IF DateBefore(r.Date, Head(sorted).Date) THEN <<r>> \o sorted
    ELSE <<Head(sorted)>> \o InsertByDate(Tail(sorted), r)

RECURSIVE SortFrom(_, _)
SortFrom(sorted, rows) ==
    IF rows = <<>> THEN sorted
    ELSE SortFrom(InsertByDate(sorted, Head(rows)), Tail(rows))

\* sort_values left out: the frame stays in the order of monthly_data.
sort_values_skipped(rows) == rows

\* df.sort_values('Date') on the parsed dates.
sort_values(rows) == SortFrom(<<>>, rows)

\* What the call ends with once the sub-range loop is over: None when no
\* bucket exists; otherwise the frame of monthly_data sorted by date,
\* except that a frame built from no record has no 'Date' column and
\* df['Date'] raises KeyError.
DownloadOutcome(ad) ==
    IF ad.dates = <<>> THEN [raised |-> FALSE, value |-> None]
    ELSE IF monthly_data(ad) = <<>> THEN [raised |-> TRUE, value |-> None]
    ELSE [raised |-> FALSE, value |-> Frame(sort_values(monthly_data(ad)))]

\* YearEnd without the min: every sub-range spans chunk_size years.
YearEndUnclamped(ys, last) == ys + chunk_size - 1

\* year_end of the sub-range that starts at ys.
YearEnd(ys, last) == Min2(ys + chunk_size - 1, last)


\* --------------------------------------------- the API's possible answers

\* A response whose JSON is an object: the entries of its T2M map in order.
Response(days) == [body_ok |-> TRUE, days |-> days]

\* A 200 response whose JSON is not an object (a list, a string):
\* data.get raises inside the processing try block.
NotAnObject == [body_ok |-> FALSE, days |-> <<>>]

\* SpecFetch: the months the API's days fall in, whatever sub-range was
\* asked for (the code does not compare a day's date with the range).
FetchMonths(first) == {<<first, 1>>, <<first, 2>>}

\* SpecFetch: every response of at most `room` day records; the record at
\* position j is day-of-month `before + j` of any of the months, of any shape.
FetchResponses(first, before, room) ==
    LET Options == FetchMonths(first) \X DayShapes
        Build(f) ==
            [j \in 1..Len(f) |->
                Day(f[j][1][1], f[j][1][2], before + j, f[j][2].valid, f[j][2].has)]
    IN  {Response(Build(f)) : f \in UNION {[1..k -> Options] : k \in 0..room}}
        \cup {NotAnObject}

\* Spec: the responses to a request for the sub-range that starts in year ys:
\* two complete days, of February then January; one day without T2M_MAX;
\* a body that is no object.
RunResponses(ys) ==
    { Response(<< Day(ys, 2, 1, TRUE, AllParams), Day(ys, 1, 2, TRUE, AllParams) >>),
      Response(<< Day(ys, 1, 3, TRUE, AllParams \ {"T2M_MAX"}) >>),
      NotAnObject }

\* The months of a response's complete days.
CompleteMonths(days) ==
    {<<days[j].year, days[j].month>> :
        j \in {k \in 1..Len(days) : days[k].valid /\ days[k].has = AllParams}}

\* ---------------------------------------- download_nasa_power_data: steps

LogEntry(outcome, months) ==
    [year_start |-> year_start,
     year_end   |-> YearEnd(year_start, end_year),
     outcome    |-> outcome,
     months     |-> months]

\* for year_start in range(start_year, end_year + 1, chunk_size): one more
\* sub-range; data = None and the retry loop starts at attempt 0.
EnterChunk ==
    /\ pc = "chunk_loop"
    /\ year_start <= end_year
    /\ attempt' = 0
    /\ pc' = "request"
    /\ UNCHANGED <<orch_vars, start_year, end_year, year_start, all_data,
                   all_chunks_successful, df, last_sleep, chunk_log,
                   days_received>>

\* RequestRetry with the same 10 seconds before every retry.
RequestRetryFixedDelay ==
    /\ pc = "request"
    /\ attempt < MaxAttempts - 1
    /\ last_sleep' = BackoffUnit
    /\ attempt' = attempt + 1
    /\ UNCHANGED <<pc, orch_vars, start_year, end_year, year_start, all_data,
                   all_chunks_successful, df, chunk_log, days_received>>

\* try_request returns None (non-200, timeout, request error, undecodable
\* body) on attempt 0 or 1: sleep (attempt + 1) * 10 seconds, try again.
RequestRetry ==
    /\ pc = "request"
    /\ attempt < MaxAttempts - 1
    /\ last_sleep' = (attempt + 1) * BackoffUnit
    /\ attempt' = attempt + 1
    /\ UNCHANGED <<pc, orch_vars, start_year, end_year, year_start, all_data,
                   all_chunks_successful, df, chunk_log, days_received>>

\* try_request returns None on the last attempt: no sleep, the retry loop
\* ends with data None, the sub-range is given up and `continue` goes to
\* the next one.
RequestGiveUp ==
    /\ pc = "request"
    /\ attempt = MaxAttempts - 1
    /\ last_sleep' = 0
    /\ all_chunks_successful' = FALSE
    /\ chunk_log' = Append(chunk_log, LogEntry("failed", {}))
    /\ year_start' = year_start + chunk_size
    /\ pc' = "chunk_loop"
    /\ UNCHANGED <<orch_vars, start_year, end_year, attempt, all_data, df,
                   days_received>>

\* ProcessChunk with the sleep after the processing left out.
ProcessChunkNoPause(resp) ==
    /\ resp.body_ok
    /\ all_data' = ProcessDays(all_data, resp.days)
    /\ last_sleep' = 0
    /\ chunk_log' = Append(chunk_log, LogEntry("ok", CompleteMonths(resp.days)))
    /\ UNCHANGED all_chunks_successful

\* try_request returns the JSON of a 200 response: the retry loop breaks and
\* the response is processed.  Its days are accumulated and the call sleeps
\* one second before the next sub-range.
ProcessChunk(resp) ==
    /\ resp.body_ok
    /\ all_data' = ProcessDays(all_data, resp.days)
    /\ last_sleep' = ChunkPause
    /\ chunk_log' = Append(chunk_log, LogEntry("ok", CompleteMonths(resp.days)))
    /\ UNCHANGED all_chunks_successful

\* The processing raises outside the per-day handler: the except branch
\* clears the flag and `continue` skips the sleep.
ProcessingError(resp) ==
    /\ ~resp.body_ok
    /\ all_chunks_successful' = FALSE
    /\ last_sleep' = 0
    /\ chunk_log' = Append(chunk_log, LogEntry("error", {}))
    /\ UNCHANGED all_data

RequestSucceeds(responses) ==
    /\ pc = "request"
    /\ \E resp \in responses :
        /\ \/ ProcessChunk(resp)
           \/ ProcessingError(resp)
        /\ days_received' = days_received + Len(resp.days)
    /\ year_start' = year_start + chunk_size
    /\ pc' = "chunk_loop"
    /\ UNCHANGED <<orch_vars, start_year, end_year, attempt, df>>

\* FinishDownload that reads all_chunks_successful: None unless every
\* sub-range succeeded.
FinishDownloadAllOrNothing ==
    /\ pc = "chunk_loop"
    /\ year_start > end_year
    /\ LET out == DownloadOutcome(all_data)
       IN  IF ~all_chunks_successful
           THEN pc' = "returned" /\ df' = None
           ELSE IF out.raised
           THEN pc' = "raised" /\ UNCHANGED df
           ELSE pc' = "returned" /\ df' = out.value
    /\ UNCHANGED <<orch_vars, start_year, end_year, year_start, attempt,
                   all_data, all_chunks_successful, last_sleep, chunk_log,
                   days_received>>

\* The sub-range loop is over: aggregate, sort and return, or raise.
FinishDownload ==
    /\ pc = "chunk_loop"
    /\ year_start > end_year
    /\ LET out == DownloadOutcome(all_data)
       IN  IF out.raised
           THEN pc' = "raised" /\ UNCHANGED df
           ELSE pc' = "returned" /\ df' = out.value
    /\ UNCHANGED <<orch_vars, start_year, end_year, year_start, attempt,
                   all_data, all_chunks_successful, last_sleep, chunk_log,
                   days_received>>

\* The locals of download_nasa_power_data on entry.
CallDownload(first, last) ==
    /\ start_year' = first
    /\ end_year' = last
    /\ year_start' = first
    /\ attempt' = 0
    /\ all_data' = EmptyAllData
    /\ all_chunks_successful' = TRUE
    /\ df' = None
    /\ last_sleep' = 0
    /\ chunk_log' = <<>>
    /\ days_received' = 0
    /\ pc' = "chunk_loop"

\* ------------------------------------------------ SpecFetch: one call

\* The three master-table files: whether written, and the rows written.
Absent == [exists |-> FALSE, rows |-> <<>>]

Written(rows) == [exists |-> TRUE, rows |-> rows]

NoFiles == [temperature |-> Absent, rainfall |-> Absent, humidity |-> Absent]

\* What collect_all_nasa_climate_data returned, if it has.
Running == [returned |-> FALSE, value |-> <<None, None, None>>]

Returned(t, r, h) == [returned |-> TRUE, value |-> <<t, r, h>>]

InitOrch ==
    /\ current_state = 0
    /\ all_temperature_data = <<>>
    /\ all_rainfall_data = <<>>
    /\ all_humidity_data = <<>>
    /\ failed_states = <<>>
    /\ files = NoFiles
    /\ result = Running

\* The arguments of the call: a period of 1 to NumYears years from 2020.
FetchArgs == {<<2020, 2020 + n>> : n \in 0..(NumYears - 1)}

InitFetch ==
    /\ InitOrch
    /\ \E a \in FetchArgs :
        /\ start_year = a[1]
        /\ end_year = a[2]
        /\ year_start = a[1]
    /\ attempt = 0
    /\ all_data = EmptyAllData
    /\ all_chunks_successful = TRUE
    /\ df = None
    /\ last_sleep = 0
    /\ chunk_log = <<>>
    /\ days_received = 0
    /\ pc = "chunk_loop"

NextFetch ==
    \/ EnterChunk
    \/ RequestRetry
    \/ RequestGiveUp
    \/ RequestSucceeds(FetchResponses(start_year, days_received, MaxDays - days_received))
    \/ FinishDownload

SpecFetch == InitFetch /\ [][NextFetch]_vars


\* -------------------------------- collect_all_nasa_climate_data: operators

HeatThreshold == 35

LocationPause == 3

Clip(x, lo, hi) == IF x < lo THEN lo ELSE IF x > hi THEN hi ELSE x

\* The random draws of one record: heat in randint(0, 10); share, the
\* uniform(0.3, 0.5) factor in hundredths; hmin and hmax, the two
\* uniform(10, 20) widths in tenths.
Draw(heat, share, hmin, hmax) ==
    [heat |-> heat, share |-> share, hmin |-> hmin, hmax |-> hmax]

\* Spec: the draws every record gets.
RunDraws == {Draw(7, 40, 150, 120)}

\* Heat_Stress_Days with the comparison >= 35 in place of > 35.
Heat_Stress_DaysFromThreshold(max_temp, heat) ==
    (IF max_temp >= 100 * HeatThreshold THEN 1 ELSE 0) * heat

\* (Max_Temp_C > 35).astype(int) * np.random.randint(0, 10): max_temp in
\* hundredths, heat the integer drawn.
Heat_Stress_Days(max_temp, heat) ==
    (IF max_temp > 100 * HeatThreshold THEN 1 ELSE 0) * heat

\* temp_df: the temperature projection of row r with its derived columns.
TempRow(r, loc, draw) ==
    [Date              |-> r.Date,
     Year              |-> r.Date[1],
     Month             |-> r.Date[2],
     Geopolitical_Zone |-> loc.zone,
     State             |-> loc.state,
     Avg_Temp_C        |-> r.Avg_Temp_C,
     Min_Temp_C        |-> r.Min_Temp_C,
     Max_Temp_C        |-> r.Max_Temp_C,
     Temp_Range_C      |-> RoundDiv(r.Max_Temp_C - r.Min_Temp_C, 10),
     Heat_Stress_Days  |-> Heat_Stress_Days(r.Max_Temp_C, draw.heat),
     Cold_Stress_Days  |-> 0]

\* ExpectedRainfall over every row of the frame, whatever its month.
ExpectedRainfallAllMonths(frame, r) ==
    <<SumSeq([i \in 1..Len(frame) |-> frame[i].Rainfall_mm]), Len(frame)>>

\* groupby(['State', 'Month'])['Rainfall_mm'].transform('mean') within the
\* location's frame, as the pair <<sum, count>> over the rows of r's
\* month-of-year.
ExpectedRainfall(frame, r) ==
    LET same == {i \in 1..Len(frame) : frame[i].Date[2] = r.Date[2]}
        RECURSIVE Total(_)
        Total(ix) ==
            IF ix = {} THEN 0
            ELSE LET i == CHOOSE j \in ix : TRUE
                 IN  frame[i].Rainfall_mm + Total(ix \ {i})
    IN  <<Total(same), Cardinality(same)>>

\* expected_rainfall.replace(0, 1) as a fraction of tenths: a mean of
\* exactly 0 becomes 1 mm.
ExpectedOrOne(e) == IF e[1] = 0 THEN <<10, 1>> ELSE e

\* round(clip(num / den, 0, 1), 3) in thousandths, den > 0.
ClipRound3(num, den) ==
    IF num <= 0 THEN 0
    ELSE IF num >= den THEN 1000
    ELSE RoundDiv(1000 * num, den)

\* (Rainfall_mm / 5).clip(0, 30).round().astype(int), rain in tenths.
Rainy_Days(rain) == RoundDiv(Clip(rain, 0, 1500), 50)

\* Rainfall_Intensity dividing by Rainy_Days + 1 instead of by
\* Rainy_Days.replace(0, 1).
Rainfall_IntensityDaysPlusOne(rain, days) == RoundDiv(rain * 10, days + 1)

\* (Rainfall_mm / Rainy_Days.replace(0, 1)).round(2) in hundredths.
Rainfall_Intensity(rain, days) ==
    RoundDiv(rain * 10, IF days = 0 THEN 1 ELSE days)

\* Drought_Index without the clip.
Drought_IndexUnclipped(rain, e) == RoundDiv(1000 * (e[1] - rain * e[2]), e[1])

\* (1 - Rainfall_mm / expected_rainfall.replace(0, 1)).clip(0, 1).round(3)
\* in thousandths; e is the expected rainfall after the replace, as
\* <<sum, count>>.
Drought_Index(rain, e) == ClipRound3(e[1] - rain * e[2], e[1])

\* Flood_Risk_Index with max(Rainfall_mm, 1) as the first divisor in place
\* of Rainfall_mm.replace(0, 1): a rainfall under 1 mm is divided by 1 mm.
Flood_Risk_IndexMaxGuard(maxd, rain, e) ==
    IF rain < 10 THEN ClipRound3(maxd * rain * e[2], 10 * e[1])
    ELSE ClipRound3(maxd * e[2], e[1])

\* ((Max_Daily_Rainfall_mm / Rainfall_mm.replace(0, 1)) *
\*  (Rainfall_mm / expected_rainfall.replace(0, 1))).clip(0, 1).round(3)
\* in thousandths.  Rainfall_mm.replace(0, 1) is Rainfall_mm itself unless
\* that is 0: the product is (maxd / rain) * (rain / expected), that is
\* maxd / expected, for rain other than 0, and 0 * 0 for a rain of 0.
Flood_Risk_Index(maxd, rain, e) ==
    IF rain = 0 THEN ClipRound3(maxd * rain * e[2], 10 * e[1])
    ELSE ClipRound3(maxd * e[2], e[1])

\* rain_df: the rainfall projection of row r with its derived columns.
RainRow(frame, r, loc, draw) ==
    LET rain   == r.Rainfall_mm
        days   == Rainy_Days(rain)
        maxd   == RoundDiv(rain * draw.share, 100)
        e      == ExpectedOrOne(ExpectedRainfall(frame, r))
    IN  [Date                  |-> r.Date,
         Year                  |-> r.Date[1],
         Month                 |-> r.Date[2],
         Geopolitical_Zone     |-> loc.zone,
         State                 |-> loc.state,
         Rainfall_mm           |-> rain,
         Rainy_Days            |-> days,
         Max_Daily_Rainfall_mm |-> maxd,
         Rainfall_Intensity    |-> Rainfall_Intensity(rain, days),
         Drought_Index         |-> Drought_Index(rain, e),
         Flood_Risk_Index      |-> Flood_Risk_Index(maxd, rain, e)]

\* humid_df: the humidity projection of row r with its derived columns.
HumidRow(r, loc, draw) ==
    [Date                 |-> r.Date,
     Year                 |-> r.Date[1],
     Month                |-> r.Date[2],
     Geopolitical_Zone    |-> loc.zone,
     State                |-> loc.state,
     Avg_Humidity_Percent |-> r.Humidity_Percent,
     Min_Humidity_Percent |-> r.Humidity_Percent - draw.hmin,
     Max_Humidity_Percent |-> r.Humidity_Percent + draw.hmax]

temp_df(frame, loc, draws) ==
    [i \in 1..Len(frame) |-> TempRow(frame[i], loc, draws[i])]

\* rain_df with the frame's rows taken in descending date order.
rain_dfReversed(frame, loc, draws) ==
    [i \in 1..Len(frame) |->
        RainRow(frame, frame[Len(frame) + 1 - i], loc, draws[i])]

rain_df(frame, loc, draws) ==
    [i \in 1..Len(frame) |-> RainRow(frame, frame[i], loc, draws[i])]

humid_df(frame, loc, draws) ==
    [i \in 1..Len(frame) |-> HumidRow(frame[i], loc, draws[i])]

\* pd.concat(frames, ignore_index=True): the frames' rows, frame after frame.
RECURSIVE concat(_)
concat(frames) ==
    IF frames = <<>> THEN <<>> ELSE Head(frames) \o concat(Tail(frames))

\* ------------------------------------ collect_all_nasa_climate_data: steps

fetch_vars == <<start_year, end_year, year_start, attempt, all_data,
                all_chunks_successful, df, chunk_log, days_received>>

\* The locals of a call that has returned are gone (chunk_log, the record
\* of what the call did, stays until the next call).
DropLocals ==
    /\ start_year' = START_YEAR
    /\ end_year' = EndYear
    /\ year_start' = START_YEAR
    /\ attempt' = 0
    /\ all_data' = EmptyAllData
    /\ all_chunks_successful' = TRUE
    /\ df' = None
    /\ days_received' = 0
    /\ UNCHANGED chunk_log

\* NextLocation that passes over a location: the loop variable advances
\* by two where it can.
NextLocationSkips ==
    /\ pc = "loc_loop"
    /\ current_state < total_states
    /\ current_state' = Min2(current_state + 2, total_states)
    /\ CallDownload(START_YEAR, EndYear)
    /\ UNCHANGED <<all_temperature_data, all_rainfall_data, all_humidity_data,
                   failed_states, files, result>>

\* The next location of the registry: count it and call
\* download_nasa_power_data for Config.START_YEAR..Config.END_YEAR.
NextLocation ==
    /\ pc = "loc_loop"
    /\ current_state < total_states
    /\ current_state' = current_state + 1
    /\ CallDownload(START_YEAR, EndYear)
    /\ UNCHANGED <<all_temperature_data, all_rainfall_data, all_humidity_data,
                   failed_states, files, result>>

\* df is not None and len(df) > 0: the three projections are appended to
\* the accumulators; then the pause between locations.
LocationSucceeded(Draws) ==
    /\ pc = "returned"
    /\ ~df.none /\ Len(df.rows) > 0
    /\ \E draws \in [1..Len(df.rows) -> Draws] :
        LET loc == Registry[current_state]
        IN  /\ all_temperature_data' =
                   Append(all_temperature_data, temp_df(df.rows, loc, draws))
            /\ all_rainfall_data' =
                   Append(all_rainfall_data, rain_df(df.rows, loc, draws))
            /\ all_humidity_data' =
                   Append(all_humidity_data, humid_df(df.rows, loc, draws))
    /\ last_sleep' = LocationPause
    /\ pc' = "loc_loop"
    /\ DropLocals
    /\ UNCHANGED <<current_state, failed_states, files, result>>

\* LocationFailed that gives the run up: the failure ends it with
\* (None, None, None).
LocationFailedAborts ==
    /\ pc = "returned"
    /\ ~(~df.none /\ Len(df.rows) > 0)
    /\ failed_states' = Append(failed_states, Registry[current_state].state)
    /\ last_sleep' = 0
    /\ result' = Returned(None, None, None)
    /\ pc' = "done"
    /\ DropLocals
    /\ UNCHANGED <<current_state, all_temperature_data, all_rainfall_data,
                   all_humidity_data, files>>

\* LocationFailed that also empties the three accumulators.
LocationFailedResets ==
    /\ pc = "returned"
    /\ ~(~df.none /\ Len(df.rows) > 0)
    /\ failed_states' = Append(failed_states, Registry[current_state].state)
    /\ all_temperature_data' = <<>>
    /\ all_rainfall_data' = <<>>
    /\ all_humidity_data' = <<>>
    /\ last_sleep' = LocationPause
    /\ pc' = "loc_loop"
    /\ DropLocals
    /\ UNCHANGED <<current_state, files, result>>

\* Otherwise the location is recorded as failed; then the same pause.
LocationFailed ==
    /\ pc = "returned"
    /\ ~(~df.none /\ Len(df.rows) > 0)
    /\ failed_states' = Append(failed_states, Registry[current_state].state)
    /\ last_sleep' = LocationPause
    /\ pc' = "loc_loop"
    /\ DropLocals
    /\ UNCHANGED <<current_state, all_temperature_data, all_rainfall_data,
                   all_humidity_data, files, result>>

\* SaveFiles as a checkpoint: taken at the head of the loop whenever a
\* frame is accumulated, locations still to come or not.
SaveFilesEarly ==
    /\ pc = "loc_loop"
    /\ all_temperature_data # <<>>
    /\ files' = [temperature |-> Written(concat(all_temperature_data)),
                 rainfall    |-> Written(concat(all_rainfall_data)),
                 humidity    |-> Written(concat(all_humidity_data))]
    /\ result' = Returned(Frame(concat(all_temperature_data)),
                          Frame(concat(all_rainfall_data)),
                          Frame(concat(all_humidity_data)))
    /\ pc' = "done"
    /\ UNCHANGED <<current_state, all_temperature_data, all_rainfall_data,
                   all_humidity_data, failed_states, fetch_vars, last_sleep>>

\* After the last location, with at least one frame accumulated: the three
\* tables are concatenated, written and returned.
SaveFiles ==
    /\ pc = "loc_loop"
    /\ current_state = total_states
    /\ all_temperature_data # <<>>
    /\ files' = [temperature |-> Written(concat(all_temperature_data)),
                 rainfall    |-> Written(concat(all_rainfall_data)),
                 humidity    |-> Written(concat(all_humidity_data))]
    /\ result' = Returned(Frame(concat(all_temperature_data)),
                          Frame(concat(all_rainfall_data)),
                          Frame(concat(all_humidity_data)))
    /\ pc' = "done"
    /\ UNCHANGED <<current_state, all_temperature_data, all_rainfall_data,
                   all_humidity_data, failed_states, fetch_vars, last_sleep>>

\* After the last location, with nothing accumulated: nothing is written,
\* (None, None, None) is returned.
ReportNoData ==
    /\ pc = "loc_loop"
    /\ current_state = total_states
    /\ all_temperature_data = <<>>
    /\ result' = Returned(None, None, None)
    /\ pc' = "done"
    /\ UNCHANGED <<current_state, all_temperature_data, all_rainfall_data,
                   all_humidity_data, failed_states, files, fetch_vars,
                   last_sleep>>

Init ==
    /\ InitOrch
    /\ start_year = START_YEAR
    /\ end_year = EndYear
    /\ year_start = START_YEAR
    /\ attempt = 0
    /\ all_data = EmptyAllData
    /\ all_chunks_successful = TRUE
    /\ df = None
    /\ last_sleep = 0
    /\ chunk_log = <<>>
    /\ days_received = 0
    /\ pc = "loc_loop"

Next ==
    \/ NextLocation
    \/ EnterChunk
    \/ RequestRetry
    \/ RequestGiveUp
    \/ RequestSucceeds(RunResponses(year_start))
    \/ FinishDownload
    \/ LocationSucceeded(RunDraws)
    \/ LocationFailed
    \/ SaveFiles
    \/ ReportNoData

Spec == Init /\ [][Next]_vars

\* ------------------------ SpecIndices: the derived columns of one location

\* The most monthly records of the frame the location's call returned.
MaxMonths == 4

\* The k-th month of the frame: January and February of START_YEAR, then
\* January of the following years (a frame holds the months that survived
\* the aggregation, which need not be consecutive).
IndexDate(k) ==
    IF k <= 2 THEN <<START_YEAR, k>> ELSE <<START_YEAR + k - 2, 1>>

\* The Rainfall_mm (tenths) and Max_Temp_C (hundredths) of one record.
\* Rainfall: none; 0.5 mm, between 0 and 1; 2.5 mm, which rounds to no
\* rainy day; 100 mm; 200 mm, beyond the clip of Rainy_Days at 30.  Maximum
\* temperature: at the heat threshold of 35 and above it.
IndexValues ==
    {<<0, 3500>>, <<5, 3500>>, <<25, 3600>>, <<1000, 3500>>, <<2000, 3600>>}

\* A record of monthly_data, its temperatures other than the maximum and
\* its humidity fixed.
IndexRecord(date, rain, max_temp) ==
    [Date             |-> date,
     Avg_Temp_C       |-> 2800,
     Max_Temp_C       |-> max_temp,
     Min_Temp_C       |-> 2200,
     Rainfall_mm      |-> rain,
     Humidity_Percent |-> 600]

\* The frames download_nasa_power_data may have returned: 1 to MaxMonths
\* records in date order, of any rainfall and maximum temperature.
IndexFrames ==
    UNION {{[k \in 1..n |-> IndexRecord(IndexDate(k), v[k][1], v[k][2])] :
                v \in [1..n -> IndexValues]} : n \in 1..MaxMonths}

\* The draws a record may get: randint(0, 10) at its ends 0 and 9,
\* uniform(0.3, 0.5) at its ends.
IndexDraws == {Draw(0, 30, 150, 120), Draw(9, 50, 150, 120), Draw(9, 30, 150, 120)}

\* The last location's call has returned a frame; every location before it
\* failed.
InitIndices ==
    /\ current_state = total_states
    /\ all_temperature_data = <<>>
    /\ all_rainfall_data = <<>>
    /\ all_humidity_data = <<>>
    /\ failed_states = [i \in 1..(total_states - 1) |-> Registry[i].state]
    /\ files = NoFiles
    /\ result = Running
    /\ start_year = START_YEAR
    /\ end_year = EndYear
    /\ year_start = START_YEAR
    /\ attempt = 0
    /\ all_data = EmptyAllData
    /\ all_chunks_successful = TRUE
    /\ df \in {Frame(rows) : rows \in IndexFrames}
    /\ last_sleep = ChunkPause
    /\ chunk_log = <<>>
    /\ days_received = 0
    /\ pc = "returned"

NextIndices ==
    \/ LocationSucceeded(IndexDraws)
    \/ SaveFiles

SpecIndices == InitIndices /\ [][NextIndices]_vars


\* ================================================================= claims

Last(s) == s[Len(s)]

\* The sub-range loop of the current call has run out of sub-ranges.
LoopOver == pc = "chunk_loop" /\ year_start > end_year

\* Every sub-range of the call was given up after its last attempt.
AllFailed(log) ==
    log # <<>> /\ \A i \in 1..Len(log) : log[i].outcome = "failed"

RowDates(rows) == {rows[k].Date : k \in 1..Len(rows)}

RowStates(frames) ==
    UNION {{frames[i][k].State : k \in 1..Len(frames[i])} : i \in 1..Len(frames)}

\* The frames of one accumulator that hold rows of a state.
FramesOf(frames, state) ==
    {i \in 1..Len(frames) : \E k \in 1..Len(frames[i]) : frames[i][k].State = state}

InSeq(x, s) == \E i \in 1..Len(s) : s[i] = x

\* Locations whose loop body has finished.
Finished ==
    IF pc \in {"loc_loop", "done"} THEN current_state ELSE current_state - 1

\* ------------------------------------------------------------------- C1

\* C1: when every sub-range of a location is given up, the call returns
\* None; the location is appended to failed_states, the three accumulators
\* are left as they are, and the loop is back at its head, where the next
\* location of the registry, if any, is started.  A failed location has no
\* row in any accumulator; every other finished location has one frame in
\* each.
C1_FailedLocationIsSkipped ==
    /\ [][AllFailed(chunk_log) =>
            /\ LoopOver => (pc' = "returned" /\ df'.none)
            /\ pc = "returned" =>
                /\ failed_states' =
                       Append(failed_states, Registry[current_state].state)
                /\ UNCHANGED <<all_temperature_data, all_rainfall_data,
                               all_humidity_data, current_state>>
                /\ pc' = "loc_loop"]_vars
    /\ [](pc = "loc_loop" /\ current_state < total_states => ENABLED NextLocation)
    /\ [](\A i \in 1..Finished :
            \A acc \in {all_temperature_data, all_rainfall_data, all_humidity_data} :
                LET state == Registry[i].state
                IN  Cardinality(FramesOf(acc, state)) =
                        IF InSeq(state, failed_states) THEN 0 ELSE 1)

\* A location whose sub-ranges all failed has just been recorded as failed,
\* after an earlier location succeeded and with locations still to come.
C1_Witness ==
    /\ pc = "loc_loop"
    /\ AllFailed(chunk_log)
    /\ 1 < current_state /\ current_state < total_states
    /\ Last(failed_states) = Registry[current_state].state
    /\ all_temperature_data # <<>>

\* ------------------------------------------------------------------- C2

\* C2: when at least one sub-range was fetched and no month survives the
\* aggregation, the call returns None (after which the location is recorded
\* as failed and the run goes on).
C2_NoMonthsIsNoData ==
    [][(/\ LoopOver
        /\ \E i \in 1..Len(chunk_log) : chunk_log[i].outcome = "ok"
        /\ \A i \in 1..Len(all_data.dates) : ~MonthIsComplete(all_data, i))
       => (pc' = "returned" /\ df'.none)]_vars

\* ------------------------------------------------------------------- C3

\* One sub-range was given up, and each of the others (there is one at
\* least) was fetched with a complete day in it.
OneFailedRestValid(log) ==
    /\ Len(log) >= 2
    /\ \E i \in 1..Len(log) :
        /\ log[i].outcome = "failed"
        /\ \A j \in 1..Len(log) \ {i} :
            log[j].outcome = "ok" /\ log[j].months # {}

LogMonths(log) == UNION {log[j].months : j \in 1..Len(log)}

\* C3: with one sub-range given up and every other fetched with complete
\* days, the call returns a frame whose months are exactly the months of the
\* fetched sub-ranges, one row each; the location is not added to
\* failed_states and its frame of exactly those months is appended to each
\* accumulator.
C3_OneFailedChunkIsNotFatal ==
    [][OneFailedRestValid(chunk_log) =>
        /\ LoopOver =>
            /\ pc' = "returned"
            /\ ~df'.none
            /\ RowDates(df'.rows) = LogMonths(chunk_log)
            /\ Len(df'.rows) = Cardinality(LogMonths(chunk_log))
        /\ pc = "returned" =>
            /\ failed_states' = failed_states
            /\ pc' = "loc_loop"
            /\ \A acc \in {<<all_temperature_data, all_temperature_data'>>,
                           <<all_rainfall_data, all_rainfall_data'>>,
                           <<all_humidity_data, all_humidity_data'>>} :
                /\ Len(acc[2]) = Len(acc[1]) + 1
                /\ SubSeq(acc[2], 1, Len(acc[1])) = acc[1]
                /\ RowDates(Last(acc[2])) = LogMonths(chunk_log)
                /\ RowStates(<<Last(acc[2])>>) = {Registry[current_state].state}]_vars

\* A location with a given-up sub-range has just been appended to the
\* accumulators.
C3_Witness ==
    /\ pc = "loc_loop"
    /\ OneFailedRestValid(chunk_log)
    /\ all_temperature_data # <<>>
    /\ Last(all_temperature_data)[1].State = Registry[current_state].state
    /\ ~InSeq(Registry[current_state].state, failed_states)

\* ------------------------------------------------------------------- C4

AllFilesWritten ==
    files.temperature.exists /\ files.rainfall.exists /\ files.humidity.exists

\* C4: a run that ended with no location succeeded wrote no file and
\* returned (None, None, None); a run that ended with a location succeeded
\* wrote the three files.
C4_TablesIffALocationSucceeded ==
    pc \in {"done", "raised"} =>
        IF all_temperature_data = <<>>
        THEN files = NoFiles /\ result = Returned(None, None, None)
        ELSE AllFilesWritten

\* ------------------------------------------------------------------- C5

\* Month key `key` has a record in what the call returned.
InOutput(key) ==
    pc = "returned" /\ ~df.none /\ key \in RowDates(df.rows)

\* C5: when the call ends, a month has a record in its output exactly if
\* each of the month's five lists holds a value; the output holds one
\* record per such month and no other record.
C5_MonthIffFiveVariables ==
    pc \in {"returned", "raised"} =>
        /\ \A i \in 1..Len(all_data.dates) :
            InOutput(all_data.dates[i]) <=>
                /\ Len(all_data.temps_avg[i]) >= 1
                /\ Len(all_data.temps_max[i]) >= 1
                /\ Len(all_data.temps_min[i]) >= 1
                /\ Len(all_data.rainfall[i]) >= 1
                /\ Len(all_data.humidity[i]) >= 1
        /\ RowDates(df.rows) \subseteq {all_data.dates[i] : i \in 1..Len(all_data.dates)}
        /\ Len(df.rows) = Cardinality(RowDates(df.rows))

\* The call returned a month and left out another that has values of four
\* variables and none of humidity.
C5_Witness ==
    /\ pc = "returned"
    /\ \E i, j \in 1..Len(all_data.dates) :
        /\ InOutput(all_data.dates[i])
        /\ ~InOutput(all_data.dates[j])
        /\ all_data.rainfall[j] # <<>>
        /\ all_data.humidity[j] = <<>>

\* ------------------------------------------------------------------- C6

\* C6: a day lacking one of the five variables adds nothing to any list, so
\* the five lists of every month always have the same length.
C6_IncompleteDayIsDropped ==
    \A i \in 1..Len(all_data.dates) :
        /\ Len(all_data.temps_max[i]) = Len(all_data.temps_avg[i])
        /\ Len(all_data.temps_min[i]) = Len(all_data.temps_avg[i])
        /\ Len(all_data.rainfall[i]) = Len(all_data.temps_avg[i])
        /\ Len(all_data.humidity[i]) = Len(all_data.temps_avg[i])

\* ------------------------------------------------------------------- C7

\* C7: a sub-range is requested at most 3 times; the retry after k failed
\* attempts is preceded by a sleep of 10 * k seconds; a step from a request
\* is either such a retry (after a failure on attempt 0 or 1), or ends the
\* sub-range and moves to the next one: with data, on whichever attempt it
\* came, or as failed, and then only on the third attempt and with no data
\* added.
C7_RetryWithLinearBackoff ==
    /\ [](pc = "request" =>
            /\ attempt \in 0..2
            /\ attempt > 0 => last_sleep = 10 * attempt)
    /\ [][pc = "request" =>
            \/ /\ pc' = "request"
               /\ attempt < 2
               /\ attempt' = attempt + 1
               /\ last_sleep' = 10 * (attempt + 1)
               /\ UNCHANGED <<year_start, chunk_log, all_data>>
            \/ /\ pc' = "chunk_loop"
               /\ year_start' = year_start + 2
               /\ Len(chunk_log') = Len(chunk_log) + 1
               /\ Last(chunk_log').year_start = year_start
               /\ Last(chunk_log').outcome = "failed" =>
                    (attempt = 2 /\ all_data' = all_data)]_vars

\* The third request of a sub-range is about to be issued, 20 seconds
\* after the second failed.
C7_Witness == pc = "request" /\ attempt = 2 /\ last_sleep = 20

\* ------------------------------------------------------------------- C8

\* C8 as stated: whenever the loop is at its head after a sub-range,
\* whatever its outcome, the one-second pause has been slept.
C8_PauseAfterEverySubRange ==
    (pc = "chunk_loop" /\ chunk_log # <<>>) => last_sleep = 1

\* C8 as amended: the one-second pause follows a sub-range that was fetched
\* and processed; a sub-range given up after its last attempt, or whose
\* processing raised, is followed by the next one with no sleep at all.
C8_PauseAfterProcessedSubRange ==
    (pc = "chunk_loop" /\ chunk_log # <<>>) =>
        IF Last(chunk_log).outcome = "ok" THEN last_sleep = 1 ELSE last_sleep = 0

\* A processed sub-range, then a given-up one followed by no sleep.
C8_Witness ==
    /\ pc = "chunk_loop"
    /\ Len(chunk_log) = 2
    /\ chunk_log[1].outcome = "ok"
    /\ chunk_log[2].outcome = "failed"
    /\ last_sleep = 0

\* ------------------------------------------------------------------- C9

RegistryIndex(state) == CHOOSE i \in 1..Len(ZONES) : ZONES[i].state = state

\* Row a comes before row b: an earlier location of the registry, or the
\* same location and an earlier month.
RowBefore(a, b) ==
    \/ RegistryIndex(a.State) < RegistryIndex(b.State)
    \/ a.State = b.State /\ DateBefore(a.Date, b.Date)

InRegistryOrder(rows) ==
    /\ \A k \in 1..(Len(rows) - 1) : RowBefore(rows[k], rows[k + 1])
    /\ \A k \in 1..Len(rows) :
        rows[k].Geopolitical_Zone = ZONES[RegistryIndex(rows[k].State)].zone

\* C9: the rows of each accumulator, and of each file written, are in
\* registry order of their locations (zone by zone) and, within a location,
\* in ascending month order; the frame a call returns is in ascending month
\* order whatever the order its months were first seen in.
C9_RowsInRegistryAndMonthOrder ==
    /\ InRegistryOrder(concat(all_temperature_data))
    /\ InRegistryOrder(concat(all_rainfall_data))
    /\ InRegistryOrder(concat(all_humidity_data))
    /\ \A f \in {"temperature", "rainfall", "humidity"} :
        InRegistryOrder(files[f].rows)
    /\ files.temperature.exists => files.temperature.rows = concat(all_temperature_data)
    /\ files.rainfall.exists => files.rainfall.rows = concat(all_rainfall_data)
    /\ files.humidity.exists => files.humidity.rows = concat(all_humidity_data)
    /\ \A k \in 1..(Len(df.rows) - 1) :
        DateBefore(df.rows[k].Date, df.rows[k + 1].Date)

\* The files hold rows of two zones and of two states of one zone, each
\* location with two months that arrived February first.
C9_Witness ==
    /\ pc = "done"
    /\ {"Kaduna", "Sokoto", "Borno"} \subseteq RowStates(<<files.rainfall.rows>>)
    /\ Len(files.rainfall.rows) >= 6

\* ------------------------------------------------------------------ C10

\* v is the nearest multiple of 1/scale to the mean of values.
IsRoundedMean(v, values, scale) ==
    LET n == Len(values)
        d == scale * SumSeq(values) - v * n
    IN  -n <= 2 * d /\ 2 * d <= n

IsMaxOf(v, values) ==
    InSeq(v, values) /\ \A k \in 1..Len(values) : values[k] <= v

IsMinOf(v, values) ==
    InSeq(v, values) /\ \A k \in 1..Len(values) : values[k] >= v

\* C10: each record of the returned frame holds, for its month, the mean of
\* the avg-temp list (to 2 decimals), the largest max-temp, the smallest
\* min-temp, the sum of the precipitation list and the mean of the humidity
\* list (to 1 decimal); avg-temps 30, 32, 34 of January 2020 give 32.00.
C10_MonthlyAggregates ==
    (pc = "returned" /\ ~df.none) =>
        \A k \in 1..Len(df.rows) :
            LET r == df.rows[k]
                i == IndexOf(all_data.dates, r.Date)
            IN  /\ IsRoundedMean(r.Avg_Temp_C, all_data.temps_avg[i], 100)
                /\ r.Max_Temp_C % 100 = 0
                /\ IsMaxOf(r.Max_Temp_C \div 100, all_data.temps_max[i])
                /\ r.Min_Temp_C % 100 = 0
                /\ IsMinOf(r.Min_Temp_C \div 100, all_data.temps_min[i])
                /\ r.Rainfall_mm = 10 * SumSeq(all_data.rainfall[i])
                /\ IsRoundedMean(r.Humidity_Percent, all_data.humidity[i], 10)
                /\ (r.Date = <<2020, 1>> /\ all_data.temps_avg[i] = <<30, 32, 34>>)
                       => r.Avg_Temp_C = 3200

\* January 2020 was returned for daily avg-temps 30, 32, 34 and daily
\* precipitation 0, 12, 5.
C10_Witness ==
    /\ pc = "returned"
    /\ ~df.none
    /\ \E k \in 1..Len(df.rows) :
        /\ df.rows[k].Date = <<2020, 1>>
        /\ df.rows[k].Avg_Temp_C = 3200
        /\ df.rows[k].Rainfall_mm = 170
        /\ all_data.temps_avg[IndexOf(all_data.dates, <<2020, 1>>)] = <<30, 32, 34>>

\* ------------------------------------------------------------------ C11

\* C11: every record of the returned frame has
\* Min_Temp_C <= Avg_Temp_C <= Max_Temp_C.
C11_MinAvgMaxOrdered ==
    (pc = "returned" /\ ~df.none) =>
        \A k \in 1..Len(df.rows) :
            /\ df.rows[k].Min_Temp_C <= df.rows[k].Avg_Temp_C
            /\ df.rows[k].Avg_Temp_C <= df.rows[k].Max_Temp_C

\* ------------------------------------------------------------------ C12

RainTables == {concat(all_rainfall_data), files.rainfall.rows}

TempTables == {concat(all_temperature_data), files.temperature.rows}

\* The baseline of row r within its table: the mean Rainfall_mm of the rows
\* of r's state and month-of-year, as the pair <<sum, count>>.
Baseline(rows, r) ==
    LET Same(k) == rows[k].State = r.State /\ rows[k].Month = r.Month
    IN  << SumSeq([k \in 1..Len(rows) |-> IF Same(k) THEN rows[k].Rainfall_mm ELSE 0]),
           SumSeq([k \in 1..Len(rows) |-> IF Same(k) THEN 1 ELSE 0]) >>

\* v is num / den rounded to the nearest integer (den > 0).
IsRounded(v, num, den) ==
    LET d == num - v * den IN -den <= 2 * d /\ 2 * d <= den

\* ------------------------------------------------------------------ C13

\* C13: in every row of the rainfall table Drought_Index and
\* Flood_Risk_Index lie between 0 and 1 (0 and 1000 thousandths), whatever
\* the rainfall, the baseline (0 included) and the draw.
C13_IndicesWithinUnitInterval ==
    \A rows \in RainTables : \A k \in 1..Len(rows) :
        /\ 0 <= rows[k].Drought_Index /\ rows[k].Drought_Index <= 1000
        /\ 0 <= rows[k].Flood_Risk_Index /\ rows[k].Flood_Risk_Index <= 1000

\* The written table holds a row of baseline 0, a row whose rainfall is
\* above its baseline (1 - rain / baseline is negative) and a row whose
\* largest daily rainfall is above its baseline (the flood ratio is over 1).
C13_Witness ==
    /\ files.rainfall.exists
    /\ LET rows == files.rainfall.rows
       IN  /\ \E k \in 1..Len(rows) : Baseline(rows, rows[k])[1] = 0
           /\ \E k \in 1..Len(rows) :
                LET b == Baseline(rows, rows[k])
                IN  rows[k].Rainfall_mm * b[2] > b[1] /\ rows[k].Drought_Index = 0
           /\ \E k \in 1..Len(rows) :
                LET b == Baseline(rows, rows[k])
                IN  /\ rows[k].Max_Daily_Rainfall_mm * b[2] > b[1]
                    /\ rows[k].Flood_Risk_Index = 1000

\* ------------------------------------------------------------------ C14

\* C14: a row whose Rainfall_mm equals its baseline exactly has
\* Drought_Index 0, also when rainfall and baseline are both 0.
C14_NoDroughtAtBaseline ==
    \A rows \in RainTables : \A k \in 1..Len(rows) :
        LET b == Baseline(rows, rows[k])
        IN  rows[k].Rainfall_mm * b[2] = b[1] => rows[k].Drought_Index = 0

\* ------------------------------------------------------------------ C15

\* C15: a row of a state and month-of-year whose baseline (the mean over
\* the location's records of that month) is positive has Drought_Index
\* clip(1 - Rainfall_mm / baseline, 0, 1) to 3 decimals; with no rain that
\* is 1.0, as for a baseline of 50 mm.
C15_DroughtIndexFromOwnBaseline ==
    \A rows \in RainTables : \A k \in 1..Len(rows) :
        LET b    == Baseline(rows, rows[k])
            rain == rows[k].Rainfall_mm
            d    == rows[k].Drought_Index
            gap  == b[1] - rain * b[2]
        IN  b[1] > 0 =>
                /\ gap <= 0 => d = 0
                /\ gap >= b[1] => d = 1000
                /\ (0 < gap /\ gap < b[1]) => IsRounded(d, 1000 * gap, b[1])
                /\ rain = 0 => d = 1000
                /\ (rain = 0 /\ b[1] = 500 * b[2]) => d = 1000

\* The written table holds a January without rain whose baseline over two
\* Januaries is 50 mm, next to a February with rain.
C15_Witness ==
    /\ files.rainfall.exists
    /\ LET rows == files.rainfall.rows
       IN  /\ \E k \in 1..Len(rows) :
                /\ rows[k].Month = 1
                /\ rows[k].Rainfall_mm = 0
                /\ Baseline(rows, rows[k]) = <<1000, 2>>
                /\ rows[k].Drought_Index = 1000
           /\ \E k \in 1..Len(rows) : rows[k].Month = 2 /\ rows[k].Rainfall_mm > 0

\* ------------------------------------------------------------------ C16

\* C16: a row with Rainy_Days 0 has Rainfall_Intensity equal to its
\* Rainfall_mm; a row with Rainy_Days >= 1 has Rainfall_mm / Rainy_Days to
\* 2 decimals.
C16_IntensityGuardsZeroDays ==
    \A rows \in RainTables : \A k \in 1..Len(rows) :
        LET r == rows[k]
        IN  /\ r.Rainy_Days >= 0
            /\ r.Rainy_Days = 0 => r.Rainfall_Intensity = 10 * r.Rainfall_mm
            /\ r.Rainy_Days >= 1 =>
                    IsRounded(r.Rainfall_Intensity, 10 * r.Rainfall_mm, r.Rainy_Days)

\* The written table holds a row of 2.5 mm over no rainy day and a row of
\* 200 mm over 30 rainy days.
C16_Witness ==
    /\ files.rainfall.exists
    /\ LET rows == files.rainfall.rows
       IN  /\ \E k \in 1..Len(rows) :
                /\ rows[k].Rainy_Days = 0
                /\ rows[k].Rainfall_mm = 25
                /\ rows[k].Rainfall_Intensity = 250
           /\ \E k \in 1..Len(rows) :
                /\ rows[k].Rainy_Days = 30
                /\ rows[k].Rainfall_Intensity = 667

\* ------------------------------------------------------------------ C20

\* C20: in every row of the temperature table Heat_Stress_Days is one of
\* 0..9, and it is 0 unless Max_Temp_C is above 35.
C20_HeatStressOnlyAboveThreshold ==
    \A rows \in TempTables : \A k \in 1..Len(rows) :
        /\ rows[k].Heat_Stress_Days \in 0..9
        /\ rows[k].Max_Temp_C <= 3500 => rows[k].Heat_Stress_Days = 0
        /\ rows[k].Heat_Stress_Days # 0 => rows[k].Max_Temp_C > 3500

\* The written table holds a month at exactly 35 degrees with no heat
\* stress day, a month above 35 with 9 of them and a month above 35 whose
\* draw was 0.
C20_Witness ==
    /\ files.temperature.exists
    /\ LET rows == files.temperature.rows
       IN  /\ \E k \in 1..Len(rows) :
                rows[k].Max_Temp_C = 3500 /\ rows[k].Heat_Stress_Days = 0
           /\ \E k \in 1..Len(rows) :
                rows[k].Max_Temp_C = 3600 /\ rows[k].Heat_Stress_Days = 9
           /\ \E k \in 1..Len(rows) :
                rows[k].Max_Temp_C = 3600 /\ rows[k].Heat_Stress_Days = 0

\* ------------------------------------------------------------------ C17

YearsOf(entry) == entry.year_start..entry.year_end

\* C18: the sub-ranges of a call are requested in ascending order, the
\* first from start_year, each from the year after the one before it ended
\* (so they do not overlap), each of 1 or 2 whole years and none beyond
\* end_year; once the loop is over they cover start_year..end_year exactly,
\* there are ceil((end_year - start_year + 1) / 2) of them and the last
\* ends at end_year.
C18_SubRangesPartitionThePeriod ==
    LET n == Len(chunk_log)
    IN  /\ start_year <= end_year
        /\ \A i \in 1..n :
            /\ chunk_log[i].year_start <= chunk_log[i].year_end
            /\ chunk_log[i].year_end <= chunk_log[i].year_start + 1
            /\ chunk_log[i].year_end <= end_year
        /\ n >= 1 => chunk_log[1].year_start = start_year
        /\ \A i \in 1..(n - 1) :
            /\ chunk_log[i + 1].year_start = chunk_log[i].year_end + 1
            /\ chunk_log[i].year_end = chunk_log[i].year_start + 1
        /\ pc = "request" =>
            /\ year_start <= end_year
            /\ year_start = IF n = 0 THEN start_year ELSE chunk_log[n].year_end + 1
        /\ (LoopOver \/ pc \in {"returned", "raised"}) =>
            /\ UNION {YearsOf(chunk_log[i]) : i \in 1..n} = start_year..end_year
            /\ 2 * n \in {end_year - start_year + 1, end_year - start_year + 2}
            /\ chunk_log[n].year_end = end_year

\* A call for three years has ended after two sub-ranges, the second
\* clamped to the one year that was left.
C18_Witness ==
    /\ pc = "returned"
    /\ end_year = start_year + 2
    /\ Len(chunk_log) = 2
    /\ YearsOf(chunk_log[1]) = {start_year, start_year + 1}
    /\ YearsOf(chunk_log[2]) = {end_year}

\* ------------------------------------------------------------------ C19

NoDuplicates(s) == \A i, j \in 1..Len(s) : s[i] = s[j] => i = j

IsPrefix(s, t) == Len(s) <= Len(t) /\ SubSeq(t, 1, Len(s)) = s

\* The five lists of bucket i.
ListsOf(ad, i) ==
    <<ad.temps_avg[i], ad.temps_max[i], ad.temps_min[i], ad.rainfall[i],
      ad.humidity[i]>>

\* C19: there is never more than one bucket per month key; the processing
\* of a sub-range's response leaves every bucket of the earlier sub-ranges
\* in place with its values and appends the new days of that month to it;
\* the returned frame has at most one record per month, taken from that one
\* bucket.
C19_OneBucketPerMonthAcrossChunks ==
    /\ [](NoDuplicates(all_data.dates))
    /\ []((pc = "returned" /\ ~df.none) =>
            /\ NoDuplicates([k \in 1..Len(df.rows) |-> df.rows[k].Date])
            /\ \A k \in 1..Len(df.rows) : InSeq(df.rows[k].Date, all_data.dates))
    /\ [][(pc = "request" /\ pc' = "chunk_loop") =>
            /\ IsPrefix(all_data.dates, all_data'.dates)
            /\ \A i \in 1..Len(all_data.dates) : \A l \in 1..5 :
                IsPrefix(ListsOf(all_data, i)[l], ListsOf(all_data', i)[l])]_vars

\* Two sub-ranges each brought a complete day of the same month; the call
\* returned one record for it, from a bucket holding both days.
C19_Witness ==
    /\ pc = "returned"
    /\ ~df.none
    /\ Len(chunk_log) = 2
    /\ \E key \in chunk_log[1].months \cap chunk_log[2].months :
        /\ Cardinality({k \in 1..Len(df.rows) : df.rows[k].Date = key}) = 1
        /\ Len(all_data.humidity[IndexOf(all_data.dates, key)]) >= 2

\* ------------------------------------------------------------------ C21

\* The baseline of row r with a mean of 0 replaced by 1 mm.
BaselineOrOne(rows, r) ==
    LET b == Baseline(rows, r) IN IF b[1] = 0 THEN <<10, 1>> ELSE b

\* v is clip(num / den, 0, 1) to 3 decimals, in thousandths (den > 0).
IsClipRounded3(v, num, den) ==
    IF num <= 0 THEN v = 0
    ELSE IF num >= den THEN v = 1000
    ELSE IsRounded(v, 1000 * num, den)

\* C21 as stated: in every row Flood_Risk_Index is
\* clip((Max_Daily_Rainfall_mm / max(Rainfall_mm, 1)) *
\*      (Rainfall_mm / baseline), 0, 1)
\* to 3 decimals, the baseline 0 replaced by 1, whatever the rainfall,
\* rainfall between 0 and 1 mm included.
C21_FloodRiskDividesByMaxOfRainAndOne ==
    \A rows \in RainTables : \A k \in 1..Len(rows) :
        LET r == rows[k]
            b == BaselineOrOne(rows, r)
        IN  IF r.Rainfall_mm < 10
            THEN IsClipRounded3(r.Flood_Risk_Index,
                                r.Max_Daily_Rainfall_mm * r.Rainfall_mm * b[2],
                                10 * b[1])
            ELSE IsClipRounded3(r.Flood_Risk_Index,
                                r.Max_Daily_Rainfall_mm * b[2], b[1])

\* C21 as amended: the first divisor is Rainfall_mm itself, with only a
\* rainfall of exactly 0 replaced by 1: for every rainfall other than 0
\* (under 1 mm too) the index is clip(Max_Daily_Rainfall_mm / baseline, 0, 1)
\* to 3 decimals, and for a rainfall of 0 it is 0.
C21_FloodRiskDividesByRainUnlessZero ==
    \A rows \in RainTables : \A k \in 1..Len(rows) :
        LET r == rows[k]
            b == BaselineOrOne(rows, r)
        IN  IF r.Rainfall_mm = 0
            THEN r.Flood_Risk_Index = 0
            ELSE IsClipRounded3(r.Flood_Risk_Index,
                                r.Max_Daily_Rainfall_mm * b[2], b[1])

\* The written table holds a February of 0.5 mm, its own baseline, with
\* 0.2 mm on its wettest day: the index is 0.2 / 0.5 = 0.4 where the
\* division by max(0.5, 1) would give 0.2.
C21_Witness ==
    /\ files.rainfall.exists
    /\ \E k \in 1..Len(files.rainfall.rows) :
        LET r == files.rainfall.rows[k]
        IN  /\ r.Rainfall_mm = 5
            /\ r.Max_Daily_Rainfall_mm = 2
            /\ Baseline(files.rainfall.rows, r) = <<5, 1>>
            /\ r.Flood_Risk_Index = 400

\* ------------------------------------------------------------------ C22

\* The three accumulators before and after a step.
Accumulators ==
    {<<all_temperature_data, all_temperature_data'>>,
     <<all_rainfall_data, all_rainfall_data'>>,
     <<all_humidity_data, all_humidity_data'>>}

\* C22: every step leaves the frames already in an accumulator where they
\* are and as they are, so the rows of the earlier locations keep their
\* content and position in the table; an accumulator changes only by one
\* frame appended when a location's call returned a non-empty frame, and no
\* step of a location that ends as failed changes any of the three.
C22_AccumulatorsAppendOnly ==
    [][/\ \A acc \in Accumulators :
            /\ IsPrefix(acc[1], acc[2])
            /\ Len(acc[2]) <= Len(acc[1]) + 1
            /\ IsPrefix(concat(acc[1]), concat(acc[2]))
            /\ acc[2] # acc[1] =>
                (pc = "returned" /\ ~df.none /\ Len(df.rows) > 0)
       /\ (pc = "returned" /\ (df.none \/ Len(df.rows) = 0)) =>
            /\ UNCHANGED <<all_temperature_data, all_rainfall_data,
                           all_humidity_data>>
            /\ failed_states' # failed_states]_vars

\* A location has just been recorded as failed after two others had
\* succeeded; their two frames are still in each accumulator.
C22_Witness ==
    /\ pc = "loc_loop"
    /\ current_state >= 3
    /\ failed_states # <<>>
    /\ Last(failed_states) = Registry[current_state].state
    /\ Len(all_temperature_data) = 2
    /\ Len(all_rainfall_data) = 2
    /\ Len(all_humidity_data) = 2

\* ------------------------------------------------------------------ C23

\* How often the name of location i is in failed_states.
TimesFailed(i) ==
    Cardinality({k \in 1..Len(failed_states) : failed_states[k] = Registry[i].state})

\* Location i has a frame in each accumulator.
HasFrames(i) ==
    \A acc \in {all_temperature_data, all_rainfall_data, all_humidity_data} :
        FramesOf(acc, Registry[i].state) # {}

\* Location i has a frame in some accumulator.
HasSomeFrame(i) ==
    \E acc \in {all_temperature_data, all_rainfall_data, all_humidity_data} :
        FramesOf(acc, Registry[i].state) # {}

\* The state of location i as the run's records show it.
LocationStatus(i) ==
    IF HasFrames(i) /\ TimesFailed(i) = 0 THEN "Succeeded"
    ELSE IF ~HasSomeFrame(i) /\ TimesFailed(i) = 1 THEN "Failed"
    ELSE IF HasSomeFrame(i) \/ TimesFailed(i) > 0 THEN "Inconsistent"
    ELSE IF i > current_state THEN "Pending"
    ELSE IF i = current_state /\ pc \notin {"loc_loop", "done"} THEN "Fetching"
    ELSE "Lost"

\* The loop over the registry has ended.
AfterLocationLoop ==
    pc = "done" \/ (pc = "loc_loop" /\ current_state = total_states)

\* C23: after the loop every location is Succeeded or Failed, one of the
\* two, and the succeeded locations and failed_states add up to the
\* registry.  At any time every location is Pending, Fetching, Succeeded or
\* Failed, at most one is Fetching, and those before it are finished and
\* those after it Pending; a location changes state only from Pending to
\* Fetching, when the one before it is finished, and from Fetching to
\* Succeeded or Failed.
C23_LocationStateMachine ==
    /\ [](AfterLocationLoop =>
            /\ \A i \in 1..total_states :
                LocationStatus(i) \in {"Succeeded", "Failed"}
            /\ Len(all_temperature_data) + Len(failed_states) = total_states
            /\ Len(all_temperature_data) =
                   Cardinality({i \in 1..total_states : LocationStatus(i) = "Succeeded"}))
    /\ [](\A i \in 1..total_states :
            /\ LocationStatus(i) \in {"Pending", "Fetching", "Succeeded", "Failed"}
            /\ LocationStatus(i) = "Fetching" =>
                /\ \A j \in 1..(i - 1) : LocationStatus(j) \in {"Succeeded", "Failed"}
                /\ \A j \in (i + 1)..total_states : LocationStatus(j) = "Pending")
    /\ [][\A i \in 1..total_states :
            LocationStatus(i)' # LocationStatus(i) =>
                \/ /\ LocationStatus(i) = "Pending"
                   /\ LocationStatus(i)' = "Fetching"
                   /\ \A j \in 1..(i - 1) : LocationStatus(j) \in {"Succeeded", "Failed"}
                \/ /\ LocationStatus(i) = "Fetching"
                   /\ LocationStatus(i)' \in {"Succeeded", "Failed"}]_vars

\* The run ended with two locations succeeded and two failed.
C23_Witness ==
    /\ pc = "done"
    /\ Len(failed_states) = 2
    /\ Cardinality({i \in 1..total_states : LocationStatus(i) = "Succeeded"}) = 2
    /\ Cardinality({i \in 1..total_states : LocationStatus(i) = "Failed"}) = 2

\* ------------------------------------------------------------------ C24

\* The <<State, Date>> keys of a table's rows, in row order.
Keys(rows) == [k \in 1..Len(rows) |-> <<rows[k].State, rows[k].Date>>]

\* The keys of an accumulator, frame by frame.
FrameKeys(acc) == [i \in 1..Len(acc) |-> Keys(acc[i])]

\* C24: the three accumulators always hold the same number of frames, and
\* frame by frame, row by row, the same State and Date; so do the three
\* tables concatenated from them, the three files, which exist together or
\* not at all, and the three frames returned.  A State and Date is in one
\* table exactly if it is in the other two.
C24_TablesAligned ==
    /\ FrameKeys(all_temperature_data) = FrameKeys(all_rainfall_data)
    /\ FrameKeys(all_rainfall_data) = FrameKeys(all_humidity_data)
    /\ Keys(concat(all_temperature_data)) = Keys(concat(all_rainfall_data))
    /\ Keys(concat(all_rainfall_data)) = Keys(concat(all_humidity_data))
    /\ files.temperature.exists = files.rainfall.exists
    /\ files.rainfall.exists = files.humidity.exists
    /\ Keys(files.temperature.rows) = Keys(files.rainfall.rows)
    /\ Keys(files.rainfall.rows) = Keys(files.humidity.rows)
    /\ Keys(result.value[1].rows) = Keys(result.value[2].rows)
    /\ Keys(result.value[2].rows) = Keys(result.value[3].rows)
    /\ NoDuplicates(Keys(concat(all_temperature_data)))

\* The three files are written with the two months of each of three
\* locations, and a location that failed is in none of them.
C24_Witness ==
    /\ pc = "done"
    /\ AllFilesWritten
    /\ Len(files.humidity.rows) = 6
    /\ Len(all_humidity_data) = 3
    /\ Len(failed_states) = 1
    /\ ~InSeq(failed_states[1], [k \in 1..6 |-> files.humidity.rows[k].State])

\* ------------------------------------------------------------------ C25

\* C25: whatever the API answers, a sub-range is requested at most 3 times
\* (so a location at most 3 times per sub-range), the third failure is
\* followed by no backoff sleep, and the run never stops short of the step
\* that saves the tables or reports that there is no data: every state
\* before that step has a next step.
C25_RunReachesSaveOrReport ==
    /\ pc = "request" => attempt \in 0..2
    /\ (pc = "chunk_loop" /\ chunk_log # <<>> /\ Last(chunk_log).outcome = "failed")
            => last_sleep = 0
    /\ Len(chunk_log) <= (end_year - start_year + 2) \div 2
    /\ pc = "done" \/ ENABLED Next

====
